---- MODULE Spec2Model ----
(***************************************************************************)
(* newsblur_cleaner.py: one run of main().  The run logs in, lists the     *)
(* feeds, pages through the unread stories of every feed with unread       *)
(* stories, triages each story (title dedup, permalink dedup, age, per-feed*)
(* cap, language), and marks the purged stories as read in one call.       *)
(*                                                                         *)
(* The NewsBlur service and langdetect are the environment: every response *)
(* (login, feed listing, story page, detected language, failure) is drawn  *)
(* from a small set.  JSON objects are records whose DOMAIN holds exactly  *)
(* the keys that are present; dict.get(key, default) is Get.  An argparse  *)
(* integer option that was not given (None) is written 0: the code only    *)
(* ever tests such an option for truth, and None and 0 are both false.     *)
(***************************************************************************)
EXTENDS Integers, Sequences, FiniteSets, TLC

VARIABLES
    pc,                   \* position of main()
    session,              \* "none", "open" or "closed": client.session
    ctx,                  \* the parsed command line
    feeds,                \* main's `feeds`: sorted, unread_count > 0
    feed_idx,             \* position of the for-loop over feeds (1-based)
    titles_seen,
    permalinks_seen,
    all_stories_to_mark,
    cutoff,
    languages,
    feed_stories,
    feed_stories_to_mark,
    page,
    story_num,
    mark_calls,           \* payloads POSTed to /reader/mark_story_hashes_as_read
    error,                \* the call that raised, or None
    detected,             \* inside the for-loop: what its last turn got
                          \* from story.GetLanguage(), or "not asked"
    decisions,            \* history: one entry per story the for-loop finished
    delivered,            \* history: story records the service has sent so far
    new_stories,          \* inside the while-loop: what its last turn got
                          \* from feed.GetStories(); <<>> outside of it
    norm_trail            \* NormSpec only: a pair of titles, then what
                          \* NormalizeTitle made of it, then of that

vars == <<pc, session, ctx, feeds, feed_idx, titles_seen, permalinks_seen,
          all_stories_to_mark, cutoff, languages, feed_stories,
          feed_stories_to_mark, page, story_num, mark_calls, error,
          detected, decisions, delivered,
          new_stories, norm_trail>>

-----------------------------------------------------------------------------
(* Bounds of the model *)

\* The service sends at most this many story records in one run.
MaxDelivered == 3

\* The page counter is followed up to this value and then stays there.
MaxPages == 2

-----------------------------------------------------------------------------
(* Python values *)

None == "None"

Get(d, key, default) == IF key \in DOMAIN d THEN d[key] ELSE default

Range(s) == {s[i] : i \in DOMAIN s}

\* datetime.timedelta(days=1), in seconds
Day == 86400

\* datetime.datetime.now() when the cutoff is computed, as epoch seconds
Now == 20 * Day

\* later readings of the clock (Story.timestamp of a record without one)
ClockReadings == {Now, Now + 1}

-----------------------------------------------------------------------------
(* Text: a string is the sequence of its code points *)

\* string.punctuation: !"#$%&'()*+,-./ :;<=>?@ [\]^_` {|}~
Punctuation == (33..47) \cup (58..64) \cup (91..96) \cup (123..126)

\* str.lower() of one ASCII character: A..Z become a..z
LowerChar(c) == IF c >= 65 /\ c <= 90 THEN c + 32 ELSE c

\* str.lower()
Lower(s) == [i \in DOMAIN s |-> LowerChar(s[i])]

NotPunctuation(c) == c \notin Punctuation

\* str.translate(str.maketrans("", "", string.punctuation))
StripPunctuation(s) == SelectSeq(s, NotPunctuation)

-----------------------------------------------------------------------------
(* Story *)

StoryId(d) == d.id

Title(d) == Get(d, "story_title", StoryId(d))

Permalink(d) == Get(d, "story_permalink", None)

Hash(d) == Get(d, "story_hash", None)

Unread(d) == Get(d, "read_status", 0) = 0

\* Story.timestamp: the record's time, or the clock when it has none
Timestamp(d, clock) ==
    IF "story_timestamp" \in DOMAIN d /\ d.story_timestamp # 0
    THEN d.story_timestamp
    ELSE clock

\* variant of NormalizeTitle: the title is not lowercased
NormalizeTitleCaseKept(d) == StripPunctuation(Title(d))

NormalizeTitle(d) == StripPunctuation(Lower(Title(d)))

-----------------------------------------------------------------------------
(* Feed *)

FeedTitle(f) == Get(f.feed_data, "feed_title", f.feed_id)

UnreadCount(f) == Get(f.feed_data, "nt", 0)

\* str comparison of two titles, a <= b (code points, then length)
RECURSIVE StrLeq(_, _)
StrLeq(a, b) ==
    IF a = <<>> THEN TRUE
    ELSE IF b = <<>> THEN FALSE
    ELSE IF a[1] # b[1] THEN a[1] < b[1]
    ELSE StrLeq(Tail(a), Tail(b))

\* insert f after every feed whose title is <= its own (sorted() is stable)
InsertByTitle(f, s) ==
    LET before == {i \in DOMAIN s : StrLeq(FeedTitle(s[i]), FeedTitle(f))}
        k == IF before = {} THEN 0 ELSE CHOOSE i \in before : \A j \in before : j <= i
    IN  SubSeq(s, 1, k) \o <<f>> \o SubSeq(s, k + 1, Len(s))

RECURSIVE SortByTitle(_)
SortByTitle(s) ==
    IF s = <<>> THEN <<>>
    ELSE InsertByTitle(s[Len(s)], SortByTitle(SubSeq(s, 1, Len(s) - 1)))

HasUnread(f) == UnreadCount(f) > 0

\* client.GetFeeds() filtered by unread_count > 0
FeedsWithUnread(listing) == SelectSeq(SortByTitle(listing), HasUnread)

-----------------------------------------------------------------------------
(* The environment: what the command line and the service may hold *)

\* --max_days_old and --max_stories_per_feed: not given (0), or 1
DaysArgs == {0, 1}

StoriesArgs == {0, 1}

\* --language, repeatable: the list argparse builds
LanguageArgs == {<<>>, <<"en">>}

\* argparse's type=int takes a negative number too
NegativeContexts ==
    { [deduplicate |-> FALSE, max_days_old |-> -1, max_stories_per_feed |-> 0,
       language |-> <<>>],
      [deduplicate |-> FALSE, max_days_old |-> 0, max_stories_per_feed |-> -1,
       language |-> <<>>] }

Contexts ==
    [deduplicate : BOOLEAN, max_days_old : DaysArgs,
     max_stories_per_feed : StoriesArgs, language : LanguageArgs]
    \cup NegativeContexts

\* what langdetect.detect may return for a title: a code, or no decision
\* (that it may raise instead is the action DetectorRaises)
DetectorCodes == {"en", "fr", "unknown"}

\* feeds of /reader/feeds: "B" with 2 unread, "A" with 1, one without a
\* title (its id "3" stands in) and nothing unread, one "A" without a count
FeedUniverse ==
    { [feed_id |-> <<49>>, feed_data |-> [feed_title |-> <<66>>, nt |-> 2]],
      [feed_id |-> <<50>>, feed_data |-> [feed_title |-> <<65>>, nt |-> 1]],
      [feed_id |-> <<51>>, feed_data |-> [nt |-> 0]],
      [feed_id |-> <<52>>, feed_data |-> [feed_title |-> <<65>>]] }

\* a listing: the items of the "feeds" object, in the order the JSON has them
RECURSIVE Listings(_)
Listings(fs) ==
    {<<>>} \cup UNION {{<<f>> \o l : l \in Listings(fs \ {f})} : f \in fs}

\* story records of /reader/feed/<id>
TsOld == Now - Day - 1
TsCut == Now - Day
TsRecent == Now - 1

StoryUniverse ==
    { \* "Hi", recent
      [id |-> <<49>>, story_title |-> <<72, 105>>, story_permalink |-> "http://x/1",
       story_timestamp |-> TsRecent, read_status |-> 0, story_hash |-> "h1"],
      \* "hi!", no permalink, one second older than a one-day cutoff
      [id |-> <<50>>, story_title |-> <<104, 105, 33>>,
       story_timestamp |-> TsOld, story_hash |-> "h2"],
      \* "Yo", the permalink of the first, exactly one day old
      [id |-> <<51>>, story_title |-> <<89, 111>>, story_permalink |-> "http://x/1",
       story_timestamp |-> TsCut, read_status |-> 0, story_hash |-> "h3"],
      \* no title (its id "#4" stands in), no permalink, no timestamp
      [id |-> <<35, 52>>, read_status |-> 0, story_hash |-> "h4"],
      \* "Hi" again, already read
      [id |-> <<53>>, story_title |-> <<72, 105>>, story_permalink |-> "http://x/5",
       story_timestamp |-> TsRecent, read_status |-> 1, story_hash |-> "h5"] }

\* the pages of at most n records
RECURSIVE Pages(_)
Pages(n) ==
    IF n = 0 THEN {<<>>}
    ELSE LET shorter == Pages(n - 1)
         IN  shorter \cup {Append(p, s) : p \in {q \in shorter : Len(q) = n - 1},
                                          s \in StoryUniverse}

-----------------------------------------------------------------------------
(* The triage rules of main's for-loop over feed_stories, in code order *)

\* TitleSeen with the raw title looked up, not the normalized one
TitleSeenRaw(story) == ctx.deduplicate /\ Title(story) \in titles_seen

\* "Purge if the exact title as already been seen."
TitleSeen(story) == ctx.deduplicate /\ NormalizeTitle(story) \in titles_seen

\* PermalinkSeen with the permalink test left out
PermalinkSeenNever(story) == FALSE

\* variant of PermalinkSeen: a story without a permalink is never a duplicate
PermalinkSeenSkipsNone(story) ==
    /\ ctx.deduplicate
    /\ Permalink(story) # None
    /\ Permalink(story) \in permalinks_seen

\* "Purge if the exact permalink has already been seen."
PermalinkSeen(story) == ctx.deduplicate /\ Permalink(story) \in permalinks_seen

\* TooOld with <= for <
TooOldInclusive(story, clock) ==
    /\ ctx.max_days_old # 0
    /\ ctx.max_days_old > 0
    /\ Timestamp(story, clock) <= cutoff

\* "Purge if the story is earlier than the timestamp cutoff"
TooOld(story, clock) ==
    /\ ctx.max_days_old # 0
    /\ ctx.max_days_old > 0
    /\ Timestamp(story, clock) < cutoff

\* variant of OverLimit: the limit is put on the stories kept so far, not on
\* the position of the story
OverLimitCountsKept(num) ==
    /\ ctx.max_stories_per_feed # 0
    /\ ctx.max_stories_per_feed > 0
    /\ num - Len(feed_stories_to_mark) >= ctx.max_stories_per_feed

\* OverLimit with > for >=
OverLimitOffByOne(num) ==
    /\ ctx.max_stories_per_feed # 0
    /\ ctx.max_stories_per_feed > 0
    /\ num > ctx.max_stories_per_feed

\* "Purge if there's a max story limit ... and it has been exceeded."
OverLimit(num) ==
    /\ ctx.max_stories_per_feed # 0
    /\ ctx.max_stories_per_feed > 0
    /\ num >= ctx.max_stories_per_feed

\* the story reaches the language test, which calls the detector
ReachesDetector(story, num, clock) ==
    /\ ~TitleSeen(story)
    /\ ~PermalinkSeen(story)
    /\ ~TooOld(story, clock)
    /\ ~OverLimit(num)
    /\ languages # {}

\* WrongLanguage with the `not` dropped
WrongLanguageInverted(lang) == languages # {} /\ lang \in languages

\* what story.GetLanguage() may return in this turn, if the turn calls it
DetectorAnswers(story, num, clock) ==
    IF ReachesDetector(story, num, clock) THEN DetectorCodes ELSE {"not asked"}

\* "Purge any stories which don't match the specified languages"
WrongLanguage(lang) == languages # {} /\ lang \notin languages

\* the first rule that purges the story, or "keep"
Rule(story, num, clock, lang) ==
    IF TitleSeen(story) THEN "title"
    ELSE IF PermalinkSeen(story) THEN "permalink"
    ELSE IF TooOld(story, clock) THEN "age"
    ELSE IF OverLimit(num) THEN "cap"
    ELSE IF WrongLanguage(lang) THEN "language"
    ELSE "keep"

\* Purged without the `continue` statements: every matching rule appends
PurgedNoContinue(story, num, clock, lang) ==
    (IF TitleSeen(story) THEN <<story>> ELSE <<>>)
    \o (IF PermalinkSeen(story) THEN <<story>> ELSE <<>>)
    \o (IF TooOld(story, clock) THEN <<story>> ELSE <<>>)
    \o (IF OverLimit(num) THEN <<story>> ELSE <<>>)
    \o (IF WrongLanguage(lang) THEN <<story>> ELSE <<>>)

\* what one turn of the for-loop appends to feed_stories_to_mark: every rule
\* that purges ends the turn with `continue`
Purged(story, num, clock, lang) ==
    IF Rule(story, num, clock, lang) = "keep" THEN <<>> ELSE <<story>>

\* SeenAfter with the note taken before the rules: purged stories are noted too
SeenAfterAny(seen, key, rule) ==
    IF ctx.deduplicate THEN seen \cup {key} ELSE seen

\* "Keeping the story, so note that it's been seen."
SeenAfter(seen, key, rule) ==
    IF rule = "keep" /\ ctx.deduplicate THEN seen \cup {key} ELSE seen

\* the story_hash list MarkStoriesAsRead posts
HashList(stories) == [i \in DOMAIN stories |-> Hash(stories[i])]

\* variant of NewStories: the read stories of the page are not left out
NewStoriesUnfiltered(items) == items

\* Feed.GetStories: the unread records of the page
NewStories(items) == SelectSeq(items, Unread)

\* the cutoff main computes once, before the loop over the feeds
Cutoff(days) == IF days # 0 THEN Now - days * Day ELSE None

-----------------------------------------------------------------------------
(* The run *)

Init ==
    /\ pc = "login"
    /\ session = "none"
    /\ ctx \in Contexts
    /\ feeds = <<>>
    /\ feed_idx = 0
    /\ titles_seen = {}
    /\ permalinks_seen = {}
    /\ all_stories_to_mark = <<>>
    /\ cutoff = None
    /\ languages = {}
    /\ feed_stories = <<>>
    /\ feed_stories_to_mark = <<>>
    /\ page = 1
    /\ story_num = 0
    /\ mark_calls = <<>>
    /\ error = None
    /\ detected = "not asked"
    /\ decisions = <<>>
    /\ delivered = 0
    /\ new_stories = <<>>
    /\ norm_trail = <<>>

\* main's locals before the run assigns them, and after its frame is gone
NoLocals ==
    /\ feeds' = <<>>
    /\ feed_idx' = 0
    /\ titles_seen' = {}
    /\ permalinks_seen' = {}
    /\ all_stories_to_mark' = <<>>
    /\ cutoff' = None
    /\ languages' = {}
    /\ feed_stories' = <<>>
    /\ feed_stories_to_mark' = <<>>
    /\ page' = 1
    /\ story_num' = 0
    /\ detected' = "not asked"
    /\ new_stories' = <<>>

\* `call` raises inside the with-block: __exit__ closes the session and the
\* exception leaves main
Abort(call) ==
    /\ pc' = "aborted"
    /\ error' = call
    /\ session' = "closed"
    /\ NoLocals
    /\ UNCHANGED <<ctx, decisions, delivered, norm_trail>>

\* NewsBlurClient.__enter__: the session is created and the login posted
Login ==
    /\ pc = "login"
    /\ session' = "open"
    /\ pc' = "feeds"
    /\ UNCHANGED <<new_stories, norm_trail>>
    /\ UNCHANGED <<ctx, feeds, feed_idx, titles_seen, permalinks_seen,
                   all_stories_to_mark, cutoff, languages, feed_stories,
                   feed_stories_to_mark, page, story_num, mark_calls, error, detected,
                   decisions, delivered>>

\* variant of LoginFails: the failed login is not noticed and main goes on
LoginFailsIgnored ==
    /\ pc = "login"
    /\ session' = "open"
    /\ pc' = "feeds"
    /\ error' = "login"
    /\ UNCHANGED <<new_stories, norm_trail>>
    /\ UNCHANGED <<ctx, feeds, feed_idx, titles_seen, permalinks_seen,
                   all_stories_to_mark, cutoff, languages, feed_stories,
                   feed_stories_to_mark, page, story_num, mark_calls,
                   detected, decisions, delivered>>

\* the login fails: __enter__ raises, so the with-block is not entered and
\* __exit__ is not run
LoginFails ==
    /\ pc = "login"
    /\ session' = "open"
    /\ pc' = "aborted"
    /\ error' = "login"
    /\ UNCHANGED <<new_stories, norm_trail>>
    /\ UNCHANGED <<ctx, feeds, feed_idx, titles_seen, permalinks_seen,
                   all_stories_to_mark, cutoff, languages, feed_stories,
                   feed_stories_to_mark, page, story_num, mark_calls,
                   detected, decisions, delivered>>

\* main, from client.GetFeeds() to the head of the loop over the feeds
LoadFeeds ==
    /\ pc = "feeds"
    /\ \E listing \in Listings(FeedUniverse) :
          /\ feeds' = FeedsWithUnread(listing)
          /\ pc' = IF feeds' = <<>> THEN "mark" ELSE "feed"
    /\ feed_idx' = 1
    /\ titles_seen' = {}
    /\ permalinks_seen' = {}
    /\ all_stories_to_mark' = <<>>
    /\ cutoff' = Cutoff(ctx.max_days_old)
    /\ languages' = Range(ctx.language)
    /\ UNCHANGED <<new_stories, norm_trail>>
    /\ UNCHANGED <<session, ctx, feed_stories, feed_stories_to_mark, page,
                   story_num, mark_calls, error, detected, decisions, delivered>>

\* the request of the feed listing fails
LoadFeedsFails ==
    /\ pc = "feeds"
    /\ Abort("feeds")
    /\ UNCHANGED mark_calls

\* variant of BeginFeed: the seen-sets are made anew for every feed
BeginFeedResetsSeen ==
    /\ pc = "feed"
    /\ titles_seen' = {}
    /\ permalinks_seen' = {}
    /\ feed_stories' = <<>>
    /\ feed_stories_to_mark' = <<>>
    /\ page' = 1
    /\ new_stories' = <<>>
    /\ pc' = "fetch"
    /\ UNCHANGED norm_trail
    /\ UNCHANGED <<session, ctx, feeds, feed_idx, all_stories_to_mark, cutoff,
                   languages, story_num, mark_calls, error, detected,
                   decisions, delivered>>

\* the head of the body of the loop over the feeds
BeginFeed ==
    /\ pc = "feed"
    /\ feed_stories' = <<>>
    /\ feed_stories_to_mark' = <<>>
    /\ page' = 1
    /\ new_stories' = <<>>
    /\ pc' = "fetch"
    /\ UNCHANGED norm_trail
    /\ UNCHANGED <<session, ctx, feeds, feed_idx, titles_seen, permalinks_seen,
                   all_stories_to_mark, cutoff, languages, story_num,
                   mark_calls, error, detected, decisions, delivered>>

\* the test of the while-loop
MoreToFetch == Len(feed_stories) < UnreadCount(feeds[feed_idx])

\* one turn of the while-loop: a page is fetched and its unread stories added
FetchPage ==
    /\ pc = "fetch"
    /\ MoreToFetch
    /\ \E items \in Pages(MaxDelivered - delivered) :
          /\ new_stories' = NewStories(items)
          /\ feed_stories' = feed_stories \o NewStories(items)
          /\ delivered' = delivered + Len(items)
    /\ page' = IF page < MaxPages THEN page + 1 ELSE page
    /\ UNCHANGED norm_trail
    /\ UNCHANGED <<pc, session, ctx, feeds, feed_idx, titles_seen,
                   permalinks_seen, all_stories_to_mark, cutoff, languages,
                   feed_stories_to_mark, story_num, mark_calls, error, detected,
                   decisions>>

\* variant of FetchPageFails: the exception is caught, the run goes on to
\* mark what it has accumulated
FetchPageFailsSwallowed ==
    /\ pc = "fetch"
    /\ MoreToFetch
    /\ error' = "page"
    /\ pc' = "mark"
    /\ UNCHANGED <<new_stories, norm_trail>>
    /\ UNCHANGED <<session, ctx, feeds, feed_idx, titles_seen,
                   permalinks_seen, all_stories_to_mark, cutoff, languages,
                   feed_stories, feed_stories_to_mark, page, story_num,
                   mark_calls, detected, decisions, delivered>>

\* the request of a page fails
FetchPageFails ==
    /\ pc = "fetch"
    /\ MoreToFetch
    /\ Abort("page")
    /\ UNCHANGED mark_calls

\* the while-loop ends; the for-loop over feed_stories starts
BeginTriage ==
    /\ pc = "fetch"
    /\ ~MoreToFetch
    /\ story_num' = 0
    /\ new_stories' = <<>>
    /\ pc' = "triage"
    /\ UNCHANGED norm_trail
    /\ UNCHANGED <<session, ctx, feeds, feed_idx, titles_seen, permalinks_seen,
                   all_stories_to_mark, cutoff, languages, feed_stories,
                   feed_stories_to_mark, page, mark_calls, error, detected,
                   decisions, delivered>>

\* what one turn of the for-loop did with a story
Decision(story, rule) ==
    [feed |-> feed_idx, num |-> story_num, story |-> story, rule |-> rule]

\* one turn of the for-loop over feed_stories
TriageStory ==
    /\ pc = "triage"
    /\ story_num < Len(feed_stories)
    /\ LET story == feed_stories[story_num + 1] IN
       \E clock \in ClockReadings :
       \E lang \in DetectorAnswers(story, story_num, clock) :
          LET rule == Rule(story, story_num, clock, lang)
          IN  /\ feed_stories_to_mark' =
                    feed_stories_to_mark \o Purged(story, story_num, clock, lang)
              /\ titles_seen' = SeenAfter(titles_seen, NormalizeTitle(story), rule)
              /\ permalinks_seen' = SeenAfter(permalinks_seen, Permalink(story), rule)
              /\ detected' = lang
              /\ decisions' = Append(decisions, Decision(story, rule))
    /\ story_num' = story_num + 1
    /\ UNCHANGED <<new_stories, norm_trail>>
    /\ UNCHANGED <<pc, session, ctx, feeds, feed_idx, all_stories_to_mark,
                   cutoff, languages, feed_stories, page, mark_calls, error,
                   delivered>>

\* langdetect.detect raises on the story's title
DetectorRaises ==
    /\ pc = "triage"
    /\ story_num < Len(feed_stories)
    /\ \E clock \in ClockReadings :
          ReachesDetector(feed_stories[story_num + 1], story_num, clock)
    /\ Abort("detect")
    /\ UNCHANGED mark_calls

\* EndFeed with the mark-as-read call made for each feed
EndFeedMarks ==
    /\ pc = "triage"
    /\ story_num = Len(feed_stories)
    /\ all_stories_to_mark' =
          IF feed_stories_to_mark # <<>>
          THEN all_stories_to_mark \o feed_stories_to_mark
          ELSE all_stories_to_mark
    /\ mark_calls' =
          IF feed_stories_to_mark # <<>>
          THEN Append(mark_calls, HashList(feed_stories_to_mark))
          ELSE mark_calls
    /\ detected' = "not asked"
    /\ feed_idx' = feed_idx + 1
    /\ pc' = IF feed_idx < Len(feeds) THEN "feed" ELSE "mark"
    /\ UNCHANGED <<new_stories, norm_trail>>
    /\ UNCHANGED <<session, ctx, feeds, titles_seen, permalinks_seen, cutoff,
                   languages, feed_stories, feed_stories_to_mark, page,
                   story_num, error, decisions, delivered>>

\* EndFeed with the feed's list assigned to the accumulator, not appended
EndFeedOverwrites ==
    /\ pc = "triage"
    /\ story_num = Len(feed_stories)
    /\ all_stories_to_mark' =
          IF feed_stories_to_mark # <<>>
          THEN feed_stories_to_mark
          ELSE all_stories_to_mark
    /\ detected' = "not asked"
    /\ feed_idx' = feed_idx + 1
    /\ pc' = IF feed_idx < Len(feeds) THEN "feed" ELSE "mark"
    /\ UNCHANGED <<new_stories, norm_trail>>
    /\ UNCHANGED <<session, ctx, feeds, titles_seen, permalinks_seen, cutoff,
                   languages, feed_stories, feed_stories_to_mark, page,
                   story_num, mark_calls, error, decisions, delivered>>

\* the for-loop is over: "Print the per-feed results", then the next feed
EndFeed ==
    /\ pc = "triage"
    /\ story_num = Len(feed_stories)
    /\ all_stories_to_mark' =
          IF feed_stories_to_mark # <<>>
          THEN all_stories_to_mark \o feed_stories_to_mark
          ELSE all_stories_to_mark
    /\ detected' = "not asked"
    /\ feed_idx' = feed_idx + 1
    /\ pc' = IF feed_idx < Len(feeds) THEN "feed" ELSE "mark"
    /\ UNCHANGED <<new_stories, norm_trail>>
    /\ UNCHANGED <<session, ctx, feeds, titles_seen, permalinks_seen, cutoff,
                   languages, feed_stories, feed_stories_to_mark, page,
                   story_num, mark_calls, error, decisions, delivered>>

\* MarkAndFinish without the test of the accumulator: it always posts
MarkAlways ==
    /\ pc = "mark"
    /\ mark_calls' = Append(mark_calls, HashList(all_stories_to_mark))
    /\ pc' = "done"
    /\ session' = "closed"
    /\ UNCHANGED <<new_stories, norm_trail>>
    /\ UNCHANGED <<ctx, feeds, feed_idx, titles_seen, permalinks_seen,
                   all_stories_to_mark, cutoff, languages, feed_stories,
                   feed_stories_to_mark, page, story_num, error, detected,
                   decisions, delivered>>

\* "Mark stories as read, if needed.", "Done", and the with-block's __exit__
MarkAndFinish ==
    /\ pc = "mark"
    /\ mark_calls' =
          IF all_stories_to_mark # <<>>
          THEN Append(mark_calls, HashList(all_stories_to_mark))
          ELSE mark_calls
    /\ pc' = "done"
    /\ session' = "closed"
    /\ UNCHANGED <<new_stories, norm_trail>>
    /\ UNCHANGED <<ctx, feeds, feed_idx, titles_seen, permalinks_seen,
                   all_stories_to_mark, cutoff, languages, feed_stories,
                   feed_stories_to_mark, page, story_num, error, detected, decisions,
                   delivered>>

\* the mark-as-read request is posted and fails
MarkFails ==
    /\ pc = "mark"
    /\ all_stories_to_mark # <<>>
    /\ mark_calls' = Append(mark_calls, HashList(all_stories_to_mark))
    /\ Abort("mark")

Next ==
    \/ Login
    \/ LoginFails
    \/ LoadFeeds
    \/ LoadFeedsFails
    \/ BeginFeed
    \/ FetchPage
    \/ FetchPageFails
    \/ BeginTriage
    \/ TriageStory
    \/ DetectorRaises
    \/ EndFeed
    \/ MarkAndFinish
    \/ MarkFails

Spec == Init /\ [][Next]_vars

-----------------------------------------------------------------------------
(* Properties *)

IsKeep(d) == d.rule = "keep"

IsPurge(d) == d.rule # "keep"

Last(s) == s[Len(s)]

\* the stories of a sequence of decisions
StoriesOf(ds) == [i \in DOMAIN ds |-> ds[i].story]

\* the decisions of feed k, and those that purge, in the order they were taken
DecisionsOfFeed(k) == LET Of(d) == d.feed = k IN SelectSeq(decisions, Of)

PurgesOfFeed(k) == SelectSeq(DecisionsOfFeed(k), IsPurge)

PurgesBeforeFeed(k) ==
    LET Before(d) == d.feed < k /\ IsPurge(d) IN SelectSeq(decisions, Before)

NoPurge == \A i \in DOMAIN decisions : IsKeep(decisions[i])

\* C1: the mark-as-read call is made at most once in a run, and only when
\* the loop over the feeds is over and every story of every feed has been
\* triaged; no step between two feeds or two stories makes it.
C1_MarkOnceAfterLastFeed ==
    [][mark_calls' # mark_calls =>
         /\ mark_calls = <<>>
         /\ Len(mark_calls') = 1
         /\ pc = "mark"
         /\ feed_idx = Len(feeds) + 1
         /\ \A k \in DOMAIN feeds : Len(DecisionsOfFeed(k)) >= UnreadCount(feeds[k])
         /\ story_num = Len(feed_stories)]_vars

\* a run over two feeds has made its one call
C1_Witness == pc = "done" /\ Len(feeds) = 2 /\ Len(mark_calls) = 1

\* C2: the argument of the mark-as-read call is the hash list of exactly the
\* purged stories, feed after feed in processing order, each feed's in
\* arrival order, every purge decision listed once.
C2_MarkArgumentIsPurged ==
    \A c \in DOMAIN mark_calls :
        mark_calls[c] = HashList(StoriesOf(SelectSeq(decisions, IsPurge)))

\* the call lists purged stories of two feeds
C2_Witness ==
    /\ mark_calls # <<>>
    /\ PurgesOfFeed(1) # <<>>
    /\ PurgesOfFeed(2) # <<>>

\* C3: when no story was purged, the end of the run makes no mark-as-read
\* call and the run ends without an error.
C3_NoPurgeNoCall ==
    /\ [](pc \in {"mark", "done"} /\ NoPurge => mark_calls = <<>> /\ error = None)
    /\ [][pc = "mark" /\ NoPurge =>
            pc' = "done" /\ mark_calls' = <<>> /\ error' = None]_vars

\* a run that triaged stories and kept them all is done, with no call made
C3_Witness ==
    pc = "done" /\ decisions # <<>> /\ NoPurge /\ mark_calls = <<>>

\* C4: with deduplicate on, every element of titles_seen is the normalized
\* title, and every element of permalinks_seen the permalink, of a story that
\* was kept; a turn that purges a story leaves both sets as they were.
C4_SeenOnlyFromKept ==
    /\ [](ctx.deduplicate =>
            /\ \A key \in titles_seen :
                  \E i \in DOMAIN decisions :
                     IsKeep(decisions[i]) /\ NormalizeTitle(decisions[i].story) = key
            /\ \A key \in permalinks_seen :
                  \E i \in DOMAIN decisions :
                     IsKeep(decisions[i]) /\ Permalink(decisions[i].story) = key)
    /\ [][decisions' # decisions /\ IsPurge(Last(decisions')) =>
            titles_seen' = titles_seen /\ permalinks_seen' = permalinks_seen]_vars

\* with deduplicate on and a title noted, a story with a title and a
\* permalink not noted was purged (by age, cap or language)
C4_Witness ==
    /\ ctx.deduplicate
    /\ pc = "triage"
    /\ titles_seen # {}
    /\ decisions # <<>>
    /\ Last(decisions).rule \in {"age", "cap", "language"}
    /\ NormalizeTitle(Last(decisions).story) \notin titles_seen
    /\ Permalink(Last(decisions).story) \notin permalinks_seen

\* C5: a turn of the for-loop purges by the first rule that matches, in the
\* order title, permalink, age, cap, language, and appends the story to
\* feed_stories_to_mark once: the feed's purge list is its purged stories in
\* arrival order, one entry per purge decision, and so is the accumulator.
C5_FirstRuleOnce ==
    /\ [][decisions' # decisions =>
            LET d == Last(decisions')
                t == TitleSeen(d.story)
                p == PermalinkSeen(d.story)
                a == TooOld(d.story, Now)
                c == OverLimit(d.num)
                l == languages # {} /\ detected' \notin languages
            IN  /\ d.rule = "title" <=> t
                /\ d.rule = "permalink" <=> ~t /\ p
                /\ d.rule = "age" <=> ~t /\ ~p /\ a
                /\ d.rule = "cap" <=> ~t /\ ~p /\ ~a /\ c
                /\ d.rule = "language" <=> ~t /\ ~p /\ ~a /\ ~c /\ l
                /\ d.rule = "keep" <=> ~t /\ ~p /\ ~a /\ ~c /\ ~l]_vars
    /\ [](pc = "triage" =>
            /\ StoriesOf(DecisionsOfFeed(feed_idx)) = SubSeq(feed_stories, 1, story_num)
            /\ feed_stories_to_mark = StoriesOf(PurgesOfFeed(feed_idx))
            /\ all_stories_to_mark = StoriesOf(PurgesBeforeFeed(feed_idx)))
    /\ [](pc \in {"feed", "mark", "done"} =>
            all_stories_to_mark = StoriesOf(SelectSeq(decisions, IsPurge)))

\* a story that is a title duplicate and older than the cutoff was purged,
\* by the title rule, and is in the feed's purge list once
C5_Witness ==
    /\ pc = "triage"
    /\ ctx.max_days_old > 0
    /\ decisions # <<>>
    /\ Last(decisions).rule = "title"
    /\ Timestamp(Last(decisions).story, Now) < cutoff
    /\ Len(SelectSeq(feed_stories_to_mark,
                     LAMBDA s : s = Last(decisions).story)) = 1

-----------------------------------------------------------------------------
(* The rules one by one *)

NormOf(i) == NormalizeTitle(decisions[i].story)

PermOf(i) == Permalink(decisions[i].story)

\* the command line enables exactly one rule
OnlyDedup ==
    /\ ctx.deduplicate
    /\ ctx.max_days_old <= 0
    /\ ctx.max_stories_per_feed <= 0
    /\ ctx.language = <<>>

OnlyAge ==
    /\ ~ctx.deduplicate
    /\ ctx.max_days_old > 0
    /\ ctx.max_stories_per_feed <= 0
    /\ ctx.language = <<>>

OnlyCap ==
    /\ ~ctx.deduplicate
    /\ ctx.max_days_old <= 0
    /\ ctx.max_stories_per_feed > 0
    /\ ctx.language = <<>>

OnlyLanguage ==
    /\ ~ctx.deduplicate
    /\ ctx.max_days_old <= 0
    /\ ctx.max_stories_per_feed <= 0
    /\ ctx.language # <<>>

\* the stories decided up to the j-th have pairwise different permalinks
DistinctPermalinksUpTo(j) ==
    \A h, i \in 1..j : h < i => PermOf(h) # PermOf(i)

\* C6: with deduplicate on, a story whose normalized title is that of a story
\* kept earlier in the run, in this feed or an earlier one, is purged (by the
\* title rule); with deduplicate the only rule and the permalinks all
\* different, a story is kept exactly when no earlier story has its
\* normalized title.
C6_TitleDedup ==
    ctx.deduplicate =>
        /\ \A i, j \in DOMAIN decisions :
              i < j /\ IsKeep(decisions[i]) /\ NormOf(i) = NormOf(j)
                 => decisions[j].rule = "title"
        /\ OnlyDedup =>
              \A j \in DOMAIN decisions :
                 DistinctPermalinksUpTo(j) =>
                    (IsKeep(decisions[j]) <=> \A i \in 1..(j - 1) : NormOf(i) # NormOf(j))

\* a story kept in the first feed, and in the second feed a story with another
\* raw title and permalink but the same normalized title, purged
C6_Witness ==
    /\ OnlyDedup
    /\ \E i, j \in DOMAIN decisions :
          /\ decisions[i].feed = 1 /\ IsKeep(decisions[i])
          /\ decisions[j].feed = 2 /\ decisions[j].rule = "title"
          /\ NormOf(i) = NormOf(j)
          /\ Title(decisions[i].story) # Title(decisions[j].story)
          /\ PermOf(i) # PermOf(j)

\* C7: with deduplicate on, a story whose permalink is that of a story kept
\* earlier in the run is purged, by the permalink rule when its normalized
\* title is new; with deduplicate the only rule, of two stories with one
\* permalink the first, if neither its title nor its permalink occurred
\* before, is kept and the second purged.
C7_PermalinkDedup ==
    ctx.deduplicate =>
        /\ \A i, j \in DOMAIN decisions :
              i < j /\ IsKeep(decisions[i]) /\ PermOf(i) = PermOf(j)
                 => /\ IsPurge(decisions[j])
                    /\ (\A h \in 1..(j - 1) : IsKeep(decisions[h]) => NormOf(h) # NormOf(j))
                          => decisions[j].rule = "permalink"
        /\ OnlyDedup =>
              \A i, j \in DOMAIN decisions :
                 /\ i < j
                 /\ PermOf(i) = PermOf(j)
                 /\ \A h \in 1..(i - 1) : NormOf(h) # NormOf(i) /\ PermOf(h) # PermOf(i)
                 => IsKeep(decisions[i]) /\ IsPurge(decisions[j])

\* a story kept in the first feed, and in the second feed a story with a new
\* title and the same permalink, purged by the permalink rule
C7_Witness ==
    /\ OnlyDedup
    /\ \E i, j \in DOMAIN decisions :
          /\ decisions[i].feed = 1 /\ IsKeep(decisions[i])
          /\ decisions[j].feed = 2 /\ decisions[j].rule = "permalink"
          /\ PermOf(i) = PermOf(j) /\ PermOf(i) # None
          /\ NormOf(i) # NormOf(j)

\* the run's time minus max_days_old days
RunCutoff == Now - ctx.max_days_old * Day

\* C8: with max_days_old the only rule, a story is purged exactly when its
\* timestamp is before the run's time minus max_days_old days (a story
\* without a timestamp has the time it is looked at, and is kept); the cutoff
\* has that one value at every position of the loop over the feeds.
C8_AgeCutoff ==
    OnlyAge =>
        /\ \A i \in DOMAIN decisions :
              LET s == decisions[i].story IN
              /\ \A clock \in ClockReadings :
                    IsPurge(decisions[i]) <=> Timestamp(s, clock) < RunCutoff
              /\ "story_timestamp" \notin DOMAIN s => IsKeep(decisions[i])
        /\ pc \in {"feed", "fetch", "triage", "mark", "done"} => cutoff = RunCutoff

\* in the first feed a story one second older than the cutoff was purged, in
\* the second a story exactly at the cutoff was kept
C8_Witness ==
    /\ OnlyAge
    /\ \E i, j \in DOMAIN decisions :
          /\ decisions[i].feed = 1 /\ IsPurge(decisions[i])
          /\ decisions[i].story.story_timestamp = RunCutoff - 1
          /\ decisions[j].feed = 2 /\ IsKeep(decisions[j])
          /\ "story_timestamp" \in DOMAIN decisions[j].story
          /\ decisions[j].story.story_timestamp = RunCutoff

\* how many stories of its feed were decided before the j-th decision
PosInFeed(j) ==
    Cardinality({i \in 1..(j - 1) : decisions[i].feed = decisions[j].feed})

\* C9: with max_stories_per_feed the only rule, a story is purged exactly when
\* its 0-based position in its own feed's fetched list is at least
\* max_stories_per_feed, whatever the story is and whatever earlier feeds held.
C9_PerFeedCap ==
    OnlyCap =>
        \A j \in DOMAIN decisions :
            /\ IsPurge(decisions[j]) <=> PosInFeed(j) >= ctx.max_stories_per_feed
            /\ pc = "triage" /\ decisions[j].feed = feed_idx
                  => decisions[j].story = feed_stories[PosInFeed(j) + 1]

\* after a first feed, the second feed's story at position 0 was kept and the
\* same story at position 1 purged
C9_Witness ==
    /\ OnlyCap
    /\ \E h, i, j \in DOMAIN decisions :
          /\ decisions[h].feed = 1
          /\ decisions[i].feed = 2 /\ PosInFeed(i) = 0 /\ IsKeep(decisions[i])
          /\ decisions[j].feed = 2 /\ PosInFeed(j) = 1 /\ IsPurge(decisions[j])
          /\ decisions[i].story = decisions[j].story

\* C10: with a language list the only rule, the detector is asked for every
\* story, and the story is purged exactly when the code it returns is not in
\* the list; "unknown" is in no list and purges.  (Stated of the story the
\* for-loop has just finished, which every triaged story once is.)
C10_LanguageFilter ==
    OnlyLanguage /\ pc = "triage" /\ story_num > 0 =>
        /\ detected \in DetectorCodes
        /\ IsPurge(Last(decisions)) <=> detected \notin Range(ctx.language)
        /\ detected = "unknown" => Last(decisions).rule = "language"

\* after a story kept, one for which the detector returned "unknown" was purged
C10_Witness ==
    /\ OnlyLanguage
    /\ pc = "triage"
    /\ Len(decisions) >= 2
    /\ IsKeep(decisions[Len(decisions) - 1])
    /\ detected = "unknown"
    /\ Last(decisions).rule = "language"

-----------------------------------------------------------------------------
(* The while-loop over the pages of a feed *)

\* the last turn of the while-loop got a page without a new story
EmptyPage == pc = "fetch" /\ page > 1 /\ new_stories = <<>>

\* C11: the page loop of a feed stops when the fetched stories reach the
\* unread count or when a page brings no new story: after such a page no
\* further page is requested, the run goes on to the triage of the feed.
C11_EmptyPageEndsLoop ==
    [][EmptyPage => ~(FetchPage \/ FetchPageFails)]_vars

-----------------------------------------------------------------------------
(* Failed requests *)

\* C12: when the request of the feed listing or of a story page fails, the
\* run is over at that request: it makes no further step (no feed, no page)
\* and it has made no mark-as-read call, whatever it had decided to purge.
C12_FailedRequestAborts ==
    error \in {"feeds", "page"} =>
        /\ pc = "aborted"
        /\ mark_calls = <<>>
        /\ ~ENABLED Next

\* a page request failed after stories of an earlier feed had been purged
C12_Witness ==
    /\ error = "page"
    /\ \E i \in DOMAIN decisions : IsPurge(decisions[i])

\* C13: when the login request fails, the run is over before the feed
\* listing: no story has been delivered or triaged, no mark-as-read call has
\* been made, and the run makes no further step.
C13_FailedLoginAborts ==
    error = "login" =>
        /\ pc = "aborted"
        /\ feeds = <<>>
        /\ delivered = 0
        /\ decisions = <<>>
        /\ mark_calls = <<>>
        /\ ~ENABLED Next

\* the login request has failed
C13_Witness == error = "login" /\ pc = "aborted" /\ session = "open"

-----------------------------------------------------------------------------
(* Story.NormalizeTitle on its own: applied to a pair of titles, and again *)
(* to what it returned                                                     *)

MaxTitleLen == 3

\* the characters of the titles: "H", "h", "!" and the space
TitleChars == {72, 104, 33, 32}

TitlesUpTo(n) == UNION { [1..k -> TitleChars] : k \in 0..n }

\* a story of the service with the title t
TitledStory(t) == [id |-> <<49>>, story_title |-> t]

NormInit ==
    /\ pc = "normalize"
    /\ session = "none"
    /\ ctx = [deduplicate |-> TRUE, max_days_old |-> 0,
              max_stories_per_feed |-> 0, language |-> <<>>]
    /\ feeds = <<>>
    /\ feed_idx = 0
    /\ titles_seen = {}
    /\ permalinks_seen = {}
    /\ all_stories_to_mark = <<>>
    /\ cutoff = None
    /\ languages = {}
    /\ feed_stories = <<>>
    /\ feed_stories_to_mark = <<>>
    /\ page = 1
    /\ story_num = 0
    /\ mark_calls = <<>>
    /\ error = None
    /\ detected = "not asked"
    /\ decisions = <<>>
    /\ delivered = 0
    /\ new_stories = <<>>
    /\ \E x \in TitlesUpTo(MaxTitleLen), y \in TitlesUpTo(MaxTitleLen) :
          norm_trail = << <<x, y>> >>

\* story.NormalizeTitle() for a story of each of the two latest titles
Normalize ==
    /\ pc = "normalize"
    /\ Len(norm_trail) < 3
    /\ norm_trail' =
          Append(norm_trail,
                 <<NormalizeTitle(TitledStory(Last(norm_trail)[1])),
                   NormalizeTitle(TitledStory(Last(norm_trail)[2]))>>)
    /\ UNCHANGED <<pc, session, ctx, feeds, feed_idx, titles_seen,
                   permalinks_seen, all_stories_to_mark, cutoff, languages,
                   feed_stories, feed_stories_to_mark, page, story_num,
                   mark_calls, error, detected, decisions, delivered,
                   new_stories>>

NormNext == Normalize

NormSpec == NormInit /\ [][NormNext]_vars

\* the same character, or the two cases of one ASCII letter
SameLetter(a, b) ==
    \/ a = b
    \/ a \in 65..90 /\ b = a + 32
    \/ b \in 65..90 /\ a = b + 32

\* x and y differ only in letter case and in ASCII punctuation
RECURSIVE Alike(_, _)
Alike(x, y) ==
    IF x # <<>> /\ Head(x) \in Punctuation THEN Alike(Tail(x), y)
    ELSE IF y # <<>> /\ Head(y) \in Punctuation THEN Alike(x, Tail(y))
    ELSE IF x = <<>> \/ y = <<>> THEN x = y
    ELSE SameLetter(Head(x), Head(y)) /\ Alike(Tail(x), Tail(y))

\* C14: normalizing a normalized title returns it unchanged, and two titles
\* that differ only in letter case and ASCII punctuation have one key.
C14_NormalizeIdempotentAlike ==
    /\ Len(norm_trail) >= 3 => norm_trail[3] = norm_trail[2]
    /\ Len(norm_trail) >= 2 /\ Alike(norm_trail[1][1], norm_trail[1][2])
          => norm_trail[2][1] = norm_trail[2][2]

\* two different titles with one key, each changed by the normalization,
\* normalized twice
C14_Witness ==
    /\ Len(norm_trail) = 3
    /\ norm_trail[1][1] # norm_trail[1][2]
    /\ Alike(norm_trail[1][1], norm_trail[1][2])
    /\ norm_trail[2][1] # norm_trail[1][1]
    /\ norm_trail[2][2] # norm_trail[1][2]
    /\ norm_trail[2][1] # <<>>

-----------------------------------------------------------------------------
(* The session *)

\* C15: the session that the run opened is closed when the run is over,
\* whether it completed, failed while the feeds were processed, or failed
\* at the login request.
C15_SessionClosedOnEveryExit ==
    pc \in {"done", "aborted"} => session # "open"

-----------------------------------------------------------------------------
(* Stories without a permalink *)

NoPermalink(d) == "story_permalink" \notin DOMAIN d.story

\* the normalized title of decision j is the one of no story kept before it
NewTitle(j) ==
    \A k \in 1..(j - 1) : IsKeep(decisions[k]) => NormOf(k) # NormOf(j)

\* C16: with --deduplicate, once a story without a permalink has been kept,
\* every later story without a permalink, of that feed or of a later one, is
\* purged, and by the permalink rule when its normalized title is new.
C16_MissingPermalinkIsAnElement ==
    ctx.deduplicate =>
        \A i, j \in DOMAIN decisions :
            /\ i < j
            /\ IsKeep(decisions[i])
            /\ NoPermalink(decisions[i])
            /\ NoPermalink(decisions[j])
            => /\ IsPurge(decisions[j])
               /\ NewTitle(j) => decisions[j].rule = "permalink"

\* a story without a permalink was kept, and a story of a later feed, also
\* without one and with a new title, was purged
C16_Witness ==
    /\ ctx.deduplicate
    /\ \E i, j \in DOMAIN decisions :
          /\ i < j
          /\ decisions[i].feed < decisions[j].feed
          /\ IsKeep(decisions[i])
          /\ NoPermalink(decisions[i])
          /\ NoPermalink(decisions[j])
          /\ NewTitle(j)
          /\ decisions[j].rule = "permalink"

-----------------------------------------------------------------------------
(* The seen-sets *)

\* C17: titles_seen and permalinks_seen are empty when the run starts and
\* only grow: every step of the run leaves each set a superset of what it
\* was, the step from one feed to the next included.  (The step by which an
\* exception leaves main ends the run and takes the sets with it.)
C17_SeenSetsOnlyGrow ==
    /\ titles_seen = {} /\ permalinks_seen = {}
    /\ [][pc' # "aborted" =>
             /\ titles_seen \subseteq titles_seen'
             /\ permalinks_seen \subseteq permalinks_seen']_vars

\* the triage of the second feed still has a title kept in the first
C17_Witness ==
    /\ pc = "triage"
    /\ feed_idx = 2
    /\ \E i \in DOMAIN decisions :
          /\ decisions[i].feed = 1
          /\ IsKeep(decisions[i])
          /\ NormOf(i) \in titles_seen
          /\ PermOf(i) \in permalinks_seen

-----------------------------------------------------------------------------
(* Read stories *)

\* the record came from the service as unread: no read_status, or 0
FetchedUnread(d) == "read_status" \notin DOMAIN d \/ d.read_status = 0

\* C18: a story that was read when it was fetched never enters the list that
\* is triaged, so every story triaged, accumulated for the mark-as-read call
\* or named in that call was unread as fetched.
C18_OnlyUnreadTriagedAndMarked ==
    /\ \A i \in DOMAIN feed_stories : FetchedUnread(feed_stories[i])
    /\ \A i \in DOMAIN decisions : FetchedUnread(decisions[i].story)
    /\ \A i \in DOMAIN all_stories_to_mark :
          FetchedUnread(all_stories_to_mark[i])
    /\ \A c \in DOMAIN mark_calls : \A h \in Range(mark_calls[c]) :
          \E i \in DOMAIN decisions :
              /\ Hash(decisions[i].story) = h
              /\ FetchedUnread(decisions[i].story)

\* the service delivered a read story among the pages, the run left it out
\* and marked others
C18_Witness ==
    /\ pc = "done"
    /\ mark_calls # <<>>
    /\ delivered > Len(decisions)

-----------------------------------------------------------------------------
(* Keep and purge *)

\* C19: whatever pages the service sends, a page that repeats a story
\* included, no hash of the mark-as-read call is the hash of a story that
\* the triage of that run kept.
C19_KeepAndPurgeDisjoint ==
    \A c \in DOMAIN mark_calls : \A h \in Range(mark_calls[c]) :
        \A i \in DOMAIN decisions :
            IsKeep(decisions[i]) => Hash(decisions[i].story) # h

-----------------------------------------------------------------------------
(* The cap together with the other rules *)

KeptInFeed(k) ==
    {j \in DOMAIN decisions : decisions[j].feed = k /\ IsKeep(decisions[j])}

\* C20: with a positive max_stories_per_feed, whatever other rules are
\* enabled, every kept story stands at a position below the cap in the
\* fetched list of its feed, and no feed has more kept stories than the cap.
C20_CapBoundsKept ==
    ctx.max_stories_per_feed > 0 =>
        /\ \A j \in DOMAIN decisions :
              IsKeep(decisions[j]) => PosInFeed(j) < ctx.max_stories_per_feed
        /\ \A j \in DOMAIN decisions :
              Cardinality(KeptInFeed(decisions[j].feed))
                  <= ctx.max_stories_per_feed

\* another rule purged the story at position 0 and the cap the one after it:
\* the feed keeps fewer stories than the cap allows
C20_Witness ==
    /\ ctx.max_stories_per_feed > 0
    /\ \E i, j \in DOMAIN decisions :
          /\ decisions[i].feed = decisions[j].feed
          /\ PosInFeed(i) = 0
          /\ decisions[i].rule \in {"title", "permalink", "age"}
          /\ decisions[j].rule = "cap"
          /\ KeptInFeed(decisions[j].feed) = {}

====
